---- MODULE Spec2Model ----
(***************************************************************************)
(* Model of the HTTP transport client of jsonrpsee                         *)
(* (client/http-client/src/transport.rs): construction of the client       *)
(* (HttpTransportClient::new) and the send loop (inner_send, send,         *)
(* send_and_read_body) with its redirect following.                        *)
(*                                                                         *)
(* Text (targets, Location values, bodies) is modelled as TLA+ strings and *)
(* handled character by character, so that prefix stripping, URL           *)
(* canonicalisation and request-target parsing are computed, not assumed.  *)
(***************************************************************************)
EXTENDS Integers, Sequences, FiniteSets, TLC

(***************************************************************************)
(* Text helpers                                                            *)
(***************************************************************************)

\* absent text, and an absent record
NoneVal == "<none>"
Nothing == [none |-> TRUE]

CharAt(s, k) == SubSeq(s, k, k)

Tail_(s, k) == SubSeq(s, k, Len(s))

StartsWith(s, p) == Len(s) >= Len(p) /\ SubSeq(s, 1, Len(p)) = p

\* Position of the first character of s that belongs to set, 0 when there is none.
FirstIndexOf(s, set) ==
    LET hits == {k \in 1..Len(s) : CharAt(s, k) \in set}
    IN  IF hits = {} THEN 0 ELSE CHOOSE k \in hits : \A j \in hits : k <= j

\* Position of the last character of s that belongs to set, 0 when there is none.
LastIndexOf(s, set) ==
    LET hits == {k \in 1..Len(s) : CharAt(s, k) \in set}
    IN  IF hits = {} THEN 0 ELSE CHOOSE k \in hits : \A j \in hits : k >= j

UpperAlpha == "ABCDEFGHIJKLMNOPQRSTUVWXYZ"
LowerAlpha == "abcdefghijklmnopqrstuvwxyz"
Digits == "0123456789"

CharsOf(s) == {CharAt(s, k) : k \in 1..Len(s)}

UpperChars == CharsOf(UpperAlpha)
AlphaChars == CharsOf(UpperAlpha) \cup CharsOf(LowerAlpha)
DigitChars == CharsOf(Digits)

IsAlpha(ch) == ch \in AlphaChars
IsDigit(ch) == ch \in DigitChars

LowerChar(ch) ==
    IF ch \in UpperChars
    THEN CharAt(LowerAlpha, CHOOSE k \in 1..Len(UpperAlpha) : CharAt(UpperAlpha, k) = ch)
    ELSE ch

RECURSIVE ToLower(_)
ToLower(s) == IF s = "" THEN "" ELSE LowerChar(CharAt(s, 1)) \o ToLower(Tail_(s, 2))

DigitVal(ch) == (CHOOSE k \in 1..Len(Digits) : CharAt(Digits, k) = ch) - 1

RECURSIVE ParseDec(_, _)
ParseDec(s, acc) ==
    IF s = "" THEN acc ELSE ParseDec(Tail_(s, 2), acc * 10 + DigitVal(CharAt(s, 1)))

RECURSIVE ShowDec(_)
ShowDec(v) ==
    IF v < 10 THEN CharAt(Digits, v + 1)
    ELSE ShowDec(v \div 10) \o CharAt(Digits, (v % 10) + 1)

RECURSIVE SkipWhile(_, _)
SkipWhile(s, set) ==
    IF s # "" /\ CharAt(s, 1) \in set THEN SkipWhile(Tail_(s, 2), set) ELSE s

(***************************************************************************)
(* Url::parse, Url::host_str, Url::set_fragment, Url::scheme, Url::as_str  *)
(* as HttpTransportClient::new uses them (transport.rs:116-122, 167).      *)
(***************************************************************************)

SpecialSchemes == {"http", "https", "ws", "wss", "ftp", "file"}

DefaultPort(scheme) ==
    CASE scheme \in {"http", "ws"} -> 80
      [] scheme \in {"https", "wss"} -> 443
      [] scheme = "ftp" -> 21
      [] OTHER -> -1

MaxPort == 65535

\* Characters that may not appear in a host.
ForbiddenHostChars == {" ", "#", "%", "/", ":", "?", "@", "[", "\\", "]", "<", ">", "^", "|"}

SchemeChars == AlphaChars \cup DigitChars \cup {"+", "-", "."}

UrlError == [ok |-> FALSE]

\* host[:port] of a URL with an authority; host is required unless the scheme is file.
ParseAuthority(scheme, auth) ==
    LET colon    == LastIndexOf(auth, {":"})
        hostText == IF colon = 0 THEN auth ELSE SubSeq(auth, 1, colon - 1)
        portText == IF colon = 0 THEN "" ELSE Tail_(auth, colon + 1)
        portOk   == /\ \A k \in 1..Len(portText) : IsDigit(CharAt(portText, k))
                    /\ ParseDec(portText, 0) <= MaxPort
        hostOk   == /\ \A k \in 1..Len(hostText) : CharAt(hostText, k) \notin ForbiddenHostChars
                    /\ (hostText # "" \/ (scheme = "file" /\ portText = ""))
    IN  IF ~(portOk /\ hostOk) THEN UrlError
        ELSE [ok   |-> TRUE,
              host |-> IF hostText = "" THEN NoneVal ELSE ToLower(hostText),
              port |-> IF portText = "" \/ ParseDec(portText, 0) = DefaultPort(scheme)
                       THEN NoneVal ELSE ShowDec(ParseDec(portText, 0))]

\* Url::parse: the parsed URL, or [ok |-> FALSE] when the text is no absolute URL.
UrlParse(input) ==
    LET colon  == FirstIndexOf(input, {":"})
        scheme == ToLower(SubSeq(input, 1, colon - 1))
        schemeOk == /\ colon > 1
                    /\ IsAlpha(CharAt(input, 1))
                    /\ \A k \in 1..(colon - 1) : CharAt(input, k) \in SchemeChars
        rest   == Tail_(input, colon + 1)
        hash   == FirstIndexOf(rest, {"#"})
        noFrag == IF hash = 0 THEN rest ELSE SubSeq(rest, 1, hash - 1)
        frag   == IF hash = 0 THEN NoneVal ELSE Tail_(rest, hash + 1)
        qm     == FirstIndexOf(noFrag, {"?"})
        noQry  == IF qm = 0 THEN noFrag ELSE SubSeq(noFrag, 1, qm - 1)
        query  == IF qm = 0 THEN NoneVal ELSE Tail_(noFrag, qm + 1)
        special == scheme \in SpecialSchemes
        lenient == special /\ scheme # "file"
        hasAuth == lenient \/ StartsWith(noQry, "//")
        \* a special scheme other than file tolerates any number of slashes before
        \* the authority
        afterSl == IF lenient THEN SkipWhile(noQry, {"/", "\\"}) ELSE Tail_(noQry, 3)
        slash  == FirstIndexOf(afterSl, {"/"})
        auth   == IF slash = 0 THEN afterSl ELSE SubSeq(afterSl, 1, slash - 1)
        path   == IF slash = 0 THEN (IF special THEN "/" ELSE "") ELSE Tail_(afterSl, slash)
        a      == ParseAuthority(scheme, auth)
    IN  IF ~schemeOk THEN UrlError
        ELSE IF ~hasAuth
        THEN [ok |-> TRUE, scheme |-> scheme, host |-> NoneVal, port |-> NoneVal,
              path |-> noQry, query |-> query, fragment |-> frag]
        ELSE IF ~a.ok THEN UrlError
        ELSE [ok |-> TRUE, scheme |-> scheme, host |-> a.host, port |-> a.port,
              path |-> path, query |-> query, fragment |-> frag]

host_str(url) == url.host

set_fragment(url, f) == [url EXCEPT !.fragment = f]

\* Url::as_str: the canonical serialisation.
as_str(url) ==
    url.scheme \o ":"
    \o (IF url.host # NoneVal THEN "//" \o url.host ELSE IF url.scheme = "file" THEN "//" ELSE "")
    \o (IF url.port # NoneVal THEN ":" \o url.port ELSE "")
    \o url.path
    \o (IF url.query # NoneVal THEN "?" \o url.query ELSE "")
    \o (IF url.fragment # NoneVal THEN "#" \o url.fragment ELSE "")

(***************************************************************************)
(* HttpTransportClient::new (transport.rs:106-175)                         *)
(***************************************************************************)

CONTENT_TYPE_JSON == "application/json"

\* HeaderMap::insert: replaces the value of a key already present (its position is
\* kept), appends otherwise.  A header map is a sequence of <<key, value>> pairs.
RECURSIVE HeaderInsert(_, _, _)
HeaderInsert(map, key, value) ==
    IF map = <<>> THEN << <<key, value>> >>
    ELSE IF Head(map)[1] = key THEN << <<key, value>> >> \o Tail(map)
    ELSE <<Head(map)>> \o HeaderInsert(Tail(map), key, value)

RECURSIVE HeaderInsertAll(_, _)
HeaderInsertAll(map, pairs) ==
    IF pairs = <<>> THEN map
    ELSE HeaderInsertAll(HeaderInsert(map, Head(pairs)[1], Head(pairs)[2]), Tail(pairs))

\* transport.rs:155-162
\* The same insertion with the two defaults put in after the caller's headers.
CachedHeadersDefaultsLast(headers) ==
    HeaderInsertAll(headers,
                    << <<"content-type", CONTENT_TYPE_JSON>>, <<"accept", CONTENT_TYPE_JSON>> >>)

CachedHeaders(headers) ==
    HeaderInsertAll(<< <<"content-type", CONTENT_TYPE_JSON>>, <<"accept", CONTENT_TYPE_JSON>> >>,
                    headers)

HeaderGet(map, key) ==
    IF \E k \in 1..Len(map) : map[k][1] = key
    THEN map[CHOOSE k \in 1..Len(map) : map[k][1] = key][2]
    ELSE NoneVal

\* transport.rs:126-140: the connector of an https target, by certificate store and
\* by the features the crate is built with.
ConnectorAvailable(cert_store, features) ==
    \/ cert_store = "Native" /\ "native-tls" \in features
    \/ cert_store = "WebPki" /\ "webpki-tls" \in features

\* transport.rs:122-150: the backend for the scheme, or the error.
SelectBackendAnyBuild(scheme, cert_store, features) ==
    IF scheme = "http" THEN [ok |-> TRUE, backend |-> "Http"]
    ELSE IF scheme = "https" THEN [ok |-> TRUE, backend |-> "Https"]
    ELSE [ok |-> FALSE, err |-> "Url"]

SelectBackend(scheme, cert_store, features) ==
    IF scheme = "http" THEN [ok |-> TRUE, backend |-> "Http"]
    ELSE IF scheme = "https" /\ "__tls" \in features
    THEN IF ConnectorAvailable(cert_store, features)
         THEN [ok |-> TRUE, backend |-> "Https"]
         ELSE [ok |-> FALSE, err |-> "InvalidCertficateStore"]
    ELSE [ok |-> FALSE, err |-> "Url"]

\* HttpTransportClient::new: Ok(client) or Err(kind).
New(args, features) ==
    LET parsed == UrlParse(args.target)
        url    == set_fragment(parsed, NoneVal)
        sel    == SelectBackend(url.scheme, args.cert_store, features)
    IN  IF ~parsed.ok THEN [ok |-> FALSE, err |-> "Url"]
        ELSE IF host_str(parsed) = NoneVal THEN [ok |-> FALSE, err |-> "Url"]
        ELSE IF ~sel.ok THEN [ok |-> FALSE, err |-> sel.err]
        ELSE [ok |-> TRUE,
              client |-> [target            |-> as_str(url),
                          client            |-> sel.backend,
                          max_request_size  |-> args.max_request_size,
                          max_response_size |-> args.max_response_size,
                          max_log_length    |-> args.max_log_length,
                          headers           |-> CachedHeaders(args.headers),
                          http_only         |-> args.http_only]]

(***************************************************************************)
(* Request targets: http::Uri as hyper::Request::post parses it, and       *)
(* HeaderValue::to_str (transport.rs:193, 203).                            *)
(***************************************************************************)

\* The bytes HeaderValue::to_str accepts: visible ASCII, space and tab (the grave
\* accent, which a TLA+ string cannot hold, is left out).
VisibleAscii ==
    AlphaChars \cup DigitChars
    \cup CharsOf(" !\"#$%&'()*+,-./:;<=>?@[\\]^_{|}~") \cup {"\t"}

\* HeaderValue::to_str: Ok(text) when every byte is visible ASCII.
to_str(value) ==
    IF \A k \in 1..Len(value) : CharAt(value, k) \in VisibleAscii
    THEN [ok |-> TRUE, text |-> value]
    ELSE [ok |-> FALSE]

\* Characters a request target may not contain.
InvalidUriChars == {" ", "\t", "<", ">", "\\", "^"}

UriError == [ok |-> FALSE]

\* Uri::from: [scheme, authority, path_and_query] of a request target, or an error.
\* The scheme is matched without regard to case; the fragment is dropped.
ParseUri(text) ==
    LET hash   == FirstIndexOf(text, {"#"})
        s      == IF hash = 0 THEN text ELSE SubSeq(text, 1, hash - 1)
        charsOk == \A k \in 1..Len(s) : CharAt(s, k) \in VisibleAscii \ InvalidUriChars
        sep    == IF \E k \in 1..Len(s) : SubSeq(s, k, k + 2) = "://"
                  THEN CHOOSE k \in 1..Len(s) :
                         /\ SubSeq(s, k, k + 2) = "://"
                         /\ \A j \in 1..(k - 1) : SubSeq(s, j, j + 2) # "://"
                  ELSE 0
        schemeOk == sep > 1 /\ \A k \in 1..(sep - 1) : CharAt(s, k) \in SchemeChars
        scheme == IF schemeOk THEN ToLower(SubSeq(s, 1, sep - 1)) ELSE NoneVal
        rest   == IF schemeOk THEN Tail_(s, sep + 3) ELSE s
        slash  == FirstIndexOf(rest, {"/", "?"})
        auth   == IF slash = 0 THEN rest ELSE SubSeq(rest, 1, slash - 1)
        pq     == IF slash = 0 THEN "" ELSE Tail_(rest, slash)
    IN  IF s = "" \/ ~charsOk THEN UriError
        ELSE IF StartsWith(s, "/")
        THEN [ok |-> TRUE, scheme |-> NoneVal, authority |-> NoneVal, path_and_query |-> s]
        ELSE IF scheme = NoneVal
        THEN \* without a scheme only the authority form is a request target
             IF pq # "" \/ sep > 0 THEN UriError
             ELSE [ok |-> TRUE, scheme |-> NoneVal, authority |-> auth, path_and_query |-> ""]
        ELSE IF auth = "" THEN UriError
        ELSE [ok |-> TRUE, scheme |-> scheme, authority |-> auth,
              path_and_query |-> IF pq = "" THEN "/" ELSE pq]

(***************************************************************************)
(* The send loop: HttpTransportClient::inner_send (transport.rs:177-219)   *)
(***************************************************************************)

\* transport.rs:185  let mut n = 32; // Maximum redirects
MaxRedirects == 32

\* StatusCode::is_redirection, StatusCode::is_success
is_redirection_to_400(status) == 300 <= status /\ status <= 400
is_redirection(status) == 300 <= status /\ status < 400

is_success_to_399(status) == 200 <= status /\ status < 400
is_success(status) == 200 <= status /\ status < 300

\* transport.rs:180  body.len() > self.max_request_size
TooLargeInclusive(cl, body) == Len(body) >= cl.max_request_size
TooLarge(cl, body) == Len(body) > cl.max_request_size

\* transport.rs:188-192: with http_only, a target starting with "https://" is
\* rewritten to start with "http://".
Downgrade(cl, target) ==
    IF cl.http_only /\ StartsWith(target, "https://")
    THEN "http://" \o Tail_(target, Len("https://") + 1)
    ELSE target

\* The same request built without the client's cached headers.
BuildRequestNoHeaders(cl, target, body) ==
    LET uri == ParseUri(target)
    IN  IF ~uri.ok THEN [ok |-> FALSE]
        ELSE [ok |-> TRUE,
              req |-> [method |-> "POST", uri |-> uri, headers |-> <<>>, body |-> body]]

\* transport.rs:193-197: the POST request for the target, with the cached headers and
\* a copy of the body; building fails when the target is no request target.
BuildRequest(cl, target, body) ==
    LET uri == ParseUri(target)
    IN  IF ~uri.ok THEN [ok |-> FALSE]
        ELSE [ok |-> TRUE,
              req |-> [method |-> "POST", uri |-> uri, headers |-> cl.headers, body |-> body]]

Pending == [kind |-> "Pending"]
Ok(status) == [kind |-> "Ok", status |-> status]
OkBytes(len) == [kind |-> "OkBytes", len |-> len]
Err(e) == [kind |-> "Err", err |-> e]
RequestFailure(status) == [kind |-> "Err", err |-> "RequestFailure", status_code |-> status]
Panic == [kind |-> "Panic"]

\* A call that has returned: its cursor and its request are gone; its argument, its
\* result and its counters stay.
Finish(st, result) ==
    [st EXCEPT !.pc = "done", !.result = result, !.target = NoneVal, !.req = Nothing]

\* transport.rs:185-187  for _ in (0..n): no iteration is left after n of them.
ExhaustedLate(st) == st.iter > MaxRedirects
Exhausted(st) == st.iter >= MaxRedirects

\* The same iteration with the request executed without waiting for readiness.
LoopHeadNoReady(cl, st, target) ==
    IF Exhausted(st) THEN Finish(st, Err("TooManyRedirects"))
    ELSE LET t     == Downgrade(cl, target)
             built == BuildRequest(cl, t, st.body)
         IN  IF ~built.ok
             THEN Finish([st EXCEPT !.iter = @ + 1], Panic)
             ELSE [st EXCEPT !.pc = "call", !.iter = @ + 1, !.issued = @ + 1,
                             !.target = t, !.req = built.req]

\* transport.rs:187-198: the head of one loop iteration, run with the cursor target
\* `target` after st.iter iterations: the bound check, the downgrade, the request, and
\* the wait for the pipeline's readiness.
LoopHead(cl, st, target) ==
    IF Exhausted(st) THEN Finish(st, Err("TooManyRedirects"))
    ELSE LET t     == Downgrade(cl, target)
             built == BuildRequest(cl, t, st.body)
         IN  IF ~built.ok
             THEN \* .expect("URI and request headers are valid; qed")
                  Finish([st EXCEPT !.iter = @ + 1], Panic)
             ELSE [st EXCEPT !.pc = "ready", !.iter = @ + 1, !.waits = @ + 1,
                             !.target = t, !.req = built.req]

\* transport.rs:177-198: the start of a call: the size check, the cursor, the first
\* iteration.
Start(cl, op, body) ==
    LET st == [pc |-> "start", op |-> op, body |-> body, target |-> NoneVal, iter |-> 0,
               waits |-> 0, issued |-> 0, answered |-> 0, req |-> Nothing,
               resp |-> Nothing, result |-> Pending, after_drop |-> FALSE]
    IN  IF TooLarge(cl, body) THEN Finish(st, Err("RequestTooLarge"))
        ELSE LoopHead(cl, st, cl.target)

\* The same with the body read for send as well.
ReturnedAlwaysRead(st, resp) ==
    [st EXCEPT !.pc = "read", !.target = NoneVal, !.req = Nothing]

\* transport.rs:233-237 and 222-224: what send and send_and_read_body do with the
\* response inner_send returns.
Returned(st, resp) ==
    IF st.op = "send" THEN Finish(st, Ok(resp.status))
    ELSE [st EXCEPT !.pc = "read", !.target = NoneVal, !.req = Nothing]

\* The same classification with a Location header followed whatever the status.
ClassifyFollowAny(cl, st, resp) ==
    LET s == [st EXCEPT !.resp = resp, !.answered = @ + 1]
    IN  IF resp.location # NoneVal
        THEN LET loc == to_str(resp.location)
             IN  IF loc.ok THEN LoopHead(cl, s, loc.text)
                 ELSE Finish(s, Err("Url"))
        ELSE IF is_success(resp.status) THEN Returned(s, resp)
        ELSE Finish(s, RequestFailure(resp.status))

\* The same classification with a relative Location resolved against the target of the
\* request it answers.
ClassifyResolving(cl, st, resp) ==
    LET s == [st EXCEPT !.resp = resp, !.answered = @ + 1]
    IN  IF is_redirection(resp.status) /\ resp.location # NoneVal
        THEN LET loc == to_str(resp.location)
             IN  IF ~loc.ok THEN Finish(s, Err("Url"))
                 ELSE IF StartsWith(loc.text, "/")
                 THEN LoopHead(cl, s, st.req.uri.scheme \o "://" \o st.req.uri.authority
                                          \o loc.text)
                 ELSE LoopHead(cl, s, loc.text)
        ELSE IF is_success(resp.status) THEN Returned(s, resp)
        ELSE Finish(s, RequestFailure(resp.status))

\* transport.rs:200-215: the classification of a response.
Classify(cl, st, resp) ==
    LET s == [st EXCEPT !.resp = resp, !.answered = @ + 1]
    IN  IF is_redirection(resp.status) /\ resp.location # NoneVal
        THEN LET loc == to_str(resp.location)
             IN  IF loc.ok THEN LoopHead(cl, s, loc.text)
                 ELSE Finish(s, Err("Url"))
        ELSE IF is_success(resp.status) THEN Returned(s, resp)
        ELSE Finish(s, RequestFailure(resp.status))

\* transport.rs:66-74: the backend executes a request only for an absolute target; the
\* plain connector refuses every scheme but http.
BackendCarries(cl, req) ==
    /\ req.uri.scheme # NoneVal
    /\ req.uri.authority # NoneVal
    /\ req.uri.scheme \in (IF cl.client = "Https" THEN {"http", "https"} ELSE {"http"})

\* http_helpers::read_body: the whole body when it is within max_body_size and well
\* formed, or the GenericTransportError TooLarge / Malformed.
read_body(body, max_body_size) ==
    IF body.len > max_body_size THEN [ok |-> FALSE, err |-> "TooLarge"]
    ELSE IF ~body.wellformed THEN [ok |-> FALSE, err |-> "Malformed"]
    ELSE [ok |-> TRUE, len |-> body.len]

\* transport.rs:275-283  impl From<GenericTransportError> for Error
FromGenericTransportErrorSwapped(e) ==
    CASE e = "TooLarge" -> Err("Malformed")
      [] e = "Malformed" -> Err("RequestTooLarge")
      [] OTHER -> Err("Http")

FromGenericTransportError(e) ==
    CASE e = "TooLarge" -> Err("RequestTooLarge")
      [] e = "Malformed" -> Err("Malformed")
      [] OTHER -> Err("Http")

\* transport.rs:225-229: read_body(...).await? and Ok(body)
ReadBodyResult(cl, body) ==
    LET r == read_body(body, cl.max_response_size)
    IN  IF r.ok THEN OkBytes(r.len) ELSE FromGenericTransportError(r.err)

(***************************************************************************)
(* State                                                                   *)
(***************************************************************************)

VARIABLES
    client,   \* the constructed HttpTransportClient (shared by its duplicated handles), or Nothing
    calls,    \* per handle: the send call running on it (locals, suspension point, result)
    built     \* the last call of HttpTransportClient::new: its arguments and what it returned

vars == <<client, calls, built>>

\* The duplicated handles of the client; one call at a time runs on each.
Calls == {1, 2}

Idle ==
    [pc |-> "idle", op |-> NoneVal, body |-> NoneVal, target |-> NoneVal, iter |-> 0,
     waits |-> 0, issued |-> 0, answered |-> 0, req |-> Nothing, resp |-> Nothing,
     result |-> Pending, after_drop |-> FALSE]

(***************************************************************************)
(* Inputs                                                                  *)
(***************************************************************************)

\* max_request_size and max_response_size of the clients the send loop is run on
ReqLimit == 1
RespLimit == 1

Ops == {"send", "send_and_read_body"}

BodyText == "{\"id\":1,\"m\":\"x\"}"

\* request bodies of 0 .. ReqLimit + 1 bytes
Bodies == {SubSeq(BodyText, 1, k) : k \in 0..(ReqLimit + 1)}

Statuses == {100, 200, 299, 300, 399, 400, 500}

\* Location header values a server may send: the same host over https, the same with
\* an upper-case scheme, another host, a path alone, text that is no request target,
\* and bytes that are no visible ASCII.
LocationValues ==
    {"https://a/b", "HTTPS://a/c", "http://b/", "/rel", "http://a/x y", "http://a/é"}

\* response bodies: within the limit, over it, and malformed
SmallBody == [len |-> RespLimit, wellformed |-> TRUE]

ResponseBodies ==
    {SmallBody, [len |-> RespLimit + 1, wellformed |-> TRUE], [len |-> 0, wellformed |-> FALSE]}

\* every status with every Location header (or none), and a plain 200 with every body
Responses ==
    [status : Statuses, location : LocationValues \cup {NoneVal}, body : {SmallBody}]
    \cup [status : {200}, location : {NoneVal}, body : ResponseBodies]

RawTargets ==
    {"http://a", "http://a:80", "http://a:9999", "http://a/p?q=1", "http://a/m#f",
     "HTTP://A/p", "https://a", "https://a:9999", "ws://a:9933", "http://a:-43",
     "http://a:99999", "mailto:x", "file:///x", "a/p", "http://", ""}

FeatureSets ==
    {{}, {"__tls"}, {"__tls", "native-tls"}, {"__tls", "webpki-tls"},
     {"__tls", "native-tls", "webpki-tls"}}

HeaderInputs ==
    {<<>>, << <<"x-api-key", "k">> >>, << <<"content-type", "text/plain">> >>}

NewArgs ==
    [max_request_size : {ReqLimit}, target : RawTargets, max_response_size : {RespLimit},
     cert_store : {"Native", "WebPki"}, max_log_length : {80}, headers : HeaderInputs,
     http_only : BOOLEAN]

\* The clients the send loop is run on: what new returns for an http and an https
\* target, with and without http_only, in a build with TLS support.
SendArgs ==
    [max_request_size : {ReqLimit}, target : {"http://a", "https://a"},
     max_response_size : {RespLimit}, cert_store : {"Native"}, max_log_length : {80},
     headers : {<<>>}, http_only : BOOLEAN]

SendClients == {New(a, {"__tls", "native-tls"}).client : a \in SendArgs}

(***************************************************************************)
(* Actions                                                                 *)
(***************************************************************************)

\* transport.rs:184-185: the cursor (target, loop counter) and the request are locals
\* of the call: a step of the call on handle c writes that call's state alone.
SetCallSharedCursor(cs, c, st) ==
    [d \in DOMAIN cs |->
        IF d = c THEN st
        ELSE IF cs[d].pc \in {"ready", "call"} /\ st.pc \in {"ready", "call"}
        THEN [cs[d] EXCEPT !.target = st.target, !.iter = st.iter]
        ELSE cs[d]]

SetCall(cs, c, st) == [cs EXCEPT ![c] = st]

\* HttpTransportClient::new is called.
Construct(args, features) ==
    LET r == New(args, features)
    IN  /\ built = Nothing
        /\ built' = [args |-> args, features |-> features, result |-> r]
        /\ client' = IF r.ok THEN r.client ELSE Nothing
        /\ calls' = [c \in Calls |-> Idle]

\* The same call started from the Location the handle's previous call was sent to.
SendRemembering(c, op, body) ==
    LET prev == calls[c]
        from == IF /\ prev.resp # Nothing
                   /\ is_redirection(prev.resp.status)
                   /\ prev.resp.location # NoneVal
                THEN prev.resp.location ELSE client.target
        st   == [Idle EXCEPT !.pc = "start", !.op = op, !.body = body]
    IN  /\ calls[c].pc \in {"idle", "done", "dropped"}
        /\ calls' = SetCall(calls, c,
                            IF TooLarge(client, body) THEN Finish(st, Err("RequestTooLarge"))
                            ELSE LoopHead(client, st, from))
        /\ UNCHANGED <<client, built>>

\* send / send_and_read_body is called on handle c and runs to its first suspension
\* point (or returns).
Send(c, op, body) ==
    /\ client # Nothing
    /\ calls[c].pc \in {"idle", "done", "dropped"}
    /\ calls' = SetCall(calls, c, [Start(client, op, body) EXCEPT
                                     !.after_drop = (calls[c].pc = "dropped")])
    /\ UNCHANGED <<client, built>>

\* The pipeline signals readiness: the request is handed to it (call(req)).
ReadyOk(c) ==
    /\ calls[c].pc = "ready"
    /\ calls' = SetCall(calls, c, [calls[c] EXCEPT !.pc = "call", !.issued = @ + 1])
    /\ UNCHANGED <<client, built>>

\* The readiness wait fails.
ReadyErr(c) ==
    /\ calls[c].pc = "ready"
    /\ calls' = SetCall(calls, c, Finish(calls[c], Err("Http")))
    /\ UNCHANGED <<client, built>>

\* The response of the request in flight arrives and is classified.
Respond(c, resp) ==
    /\ calls[c].pc = "call"
    /\ BackendCarries(client, calls[c].req)
    /\ calls' = SetCall(calls, c, Classify(client, calls[c], resp))
    /\ UNCHANGED <<client, built>>

\* The same failure with the request tried again instead of the call ending.
CallErrRetry(c) ==
    /\ calls[c].pc = "call"
    /\ calls' = SetCall(calls, c, [calls[c] EXCEPT !.pc = "ready", !.waits = @ + 1])
    /\ UNCHANGED <<client, built>>

\* The exchange fails.
CallErr(c) ==
    /\ calls[c].pc = "call"
    /\ calls' = SetCall(calls, c, Finish(calls[c], Err("Http")))
    /\ UNCHANGED <<client, built>>

\* send_and_read_body reads the body of the response inner_send returned.
ReadBody(c) ==
    /\ calls[c].pc = "read"
    /\ calls' = SetCall(calls, c, Finish(calls[c], ReadBodyResult(client, calls[c].resp.body)))
    /\ UNCHANGED <<client, built>>

\* Reading the body fails in the transport.
ReadErr(c) ==
    /\ calls[c].pc = "read"
    /\ calls' = SetCall(calls, c, Finish(calls[c], FromGenericTransportError("Inner")))
    /\ UNCHANGED <<client, built>>

\* The caller drops the call at a suspension point: its locals are gone and nothing is
\* returned; the counters stay as the record of what the call did.
Abandon(c) ==
    /\ calls[c].pc \in {"ready", "call", "read"}
    /\ calls' = SetCall(calls, c, [calls[c] EXCEPT !.pc = "dropped", !.target = NoneVal,
                                                   !.req = Nothing, !.resp = Nothing])
    /\ UNCHANGED <<client, built>>

(***************************************************************************)
(* Specifications                                                          *)
(***************************************************************************)

\* Spec: calls made one after the other on one handle of a constructed client.
Init ==
    /\ client \in SendClients
    /\ calls = [c \in Calls |-> Idle]
    /\ built = Nothing

Next ==
    \E c \in {1} :
        \/ \E op \in Ops, body \in Bodies : Send(c, op, body)
        \/ ReadyOk(c)
        \/ ReadyErr(c)
        \/ \E resp \in Responses : Respond(c, resp)
        \/ CallErr(c)
        \/ ReadBody(c)
        \/ ReadErr(c)
        \/ Abandon(c)

Spec == Init /\ [][Next]_vars

\* SpecConc: two calls running concurrently on duplicated handles of one client (an
\* https target with http_only set), interleaved at their suspension points.
ConcClients == {cl \in SendClients : cl.http_only /\ cl.client = "Https"}

ConcBody == SubSeq(BodyText, 1, ReqLimit)

ConcResponses ==
    [status : {200, 300}, location : {"https://a/b", "http://b/"}, body : {SmallBody}]

InitConc ==
    /\ client \in ConcClients
    /\ calls = [c \in Calls |-> Idle]
    /\ built = Nothing

NextConc ==
    \E c \in Calls :
        \/ Send(c, "send", ConcBody)
        \/ ReadyOk(c)
        \/ ReadyErr(c)
        \/ \E resp \in ConcResponses : Respond(c, resp)
        \/ CallErr(c)

SpecConc == InitConc /\ [][NextConc]_vars

\* SpecNew: the constructor, over raw targets, certificate stores and builds.
InitNew ==
    /\ client = Nothing
    /\ calls = [c \in Calls |-> Idle]
    /\ built = Nothing

NextNew == \E args \in NewArgs, features \in FeatureSets : Construct(args, features)

SpecNew == InitNew /\ [][NextNew]_vars

\* SpecHdr: the send loop on clients constructed with caller-supplied headers; built
\* keeps the arguments the client was constructed from.
CallerHeaders ==
    {<<>>,
     << <<"x-api-key", "k">> >>,
     << <<"content-type", "text/plain">> >>,
     << <<"x-api-key", "k">>, <<"accept", "text/html">> >>}

HdrArgs ==
    [max_request_size : {ReqLimit}, target : {"https://a"},
     max_response_size : {RespLimit}, cert_store : {"Native"}, max_log_length : {80},
     headers : CallerHeaders, http_only : {TRUE}]

HdrFeatures == {"__tls", "native-tls"}

InitHdr ==
    \E args \in HdrArgs :
        /\ built = [args |-> args, features |-> HdrFeatures,
                    result |-> New(args, HdrFeatures)]
        /\ client = New(args, HdrFeatures).client
        /\ calls = [c \in Calls |-> Idle]

NextHdr ==
    \E c \in {1} :
        \/ Send(c, "send", ConcBody)
        \/ ReadyOk(c)
        \/ ReadyErr(c)
        \/ \E resp \in ConcResponses : Respond(c, resp)
        \/ CallErr(c)

SpecHdr == InitHdr /\ [][NextHdr]_vars

\* SpecLive: one call at a time on one handle, with every readiness wait, every
\* execute step and every body read completing (with a result or with a failure).
LiveResponses ==
    [status : {200, 300, 500}, location : {"https://a/b", "http://a/x y", NoneVal},
     body : {SmallBody}]

Resolve(c) ==
    \/ ReadyOk(c)
    \/ ReadyErr(c)
    \/ \E resp \in LiveResponses : Respond(c, resp)
    \/ CallErr(c)
    \/ ReadBody(c)
    \/ ReadErr(c)

NextLive ==
    \E c \in {1} :
        \/ \E op \in Ops : Send(c, op, ConcBody)
        \/ ReadyOk(c)
        \/ ReadyErr(c)
        \/ \E resp \in LiveResponses : Respond(c, resp)
        \/ CallErr(c)
        \/ ReadBody(c)
        \/ ReadErr(c)

SpecLive == Init /\ [][NextLive]_vars /\ WF_vars(Resolve(1))

(***************************************************************************)
(* Properties                                                              *)
(***************************************************************************)

Is2xx(status) == status \in 200..299
Is3xx(status) == status \in 300..399

Started(c) == calls[c].pc # "idle"

\* C1: a send (send or send_and_read_body) whose body is longer than
\* max_request_size has failed with RequestTooLarge without any readiness wait and
\* without any request executed; a body of at most max_request_size bytes is not
\* rejected: the call reaches its first readiness wait.
C1_RequestLimit ==
    \A c \in Calls :
        Started(c) =>
            /\ Len(calls[c].body) > client.max_request_size =>
                   /\ calls[c].pc = "done"
                   /\ calls[c].result = Err("RequestTooLarge")
                   /\ calls[c].iter = 0 /\ calls[c].waits = 0 /\ calls[c].issued = 0
            /\ Len(calls[c].body) <= client.max_request_size => calls[c].waits >= 1

C1_Witness ==
    \E c \in Calls :
        /\ calls[c].pc = "done"
        /\ calls[c].op = "send_and_read_body"
        /\ Len(calls[c].body) = client.max_request_size + 1
        /\ calls[c].result = Err("RequestTooLarge")
        /\ calls[c].issued = 0

\* C2: a call never executes more than 32 requests; it fails with TooManyRedirects
\* only after executing exactly 32 requests, the last answered with a redirection
\* carrying a Location header; and when its 32nd request is answered, like the 31
\* before it, with a redirection carrying a valid Location header, it fails with
\* TooManyRedirects and has executed exactly 32 requests.
C2_RedirectBound ==
    \A c \in Calls :
        /\ calls[c].issued <= 32
        /\ calls[c].result = Err("TooManyRedirects") =>
               /\ calls[c].pc = "done"
               /\ calls[c].issued = 32 /\ calls[c].waits = 32 /\ calls[c].answered = 32
               /\ Is3xx(calls[c].resp.status) /\ calls[c].resp.location # NoneVal
        /\ ( /\ calls[c].answered = 32
             /\ calls[c].resp # Nothing
             /\ Is3xx(calls[c].resp.status)
             /\ calls[c].resp.location \in {"https://a/b", "HTTPS://a/c", "http://b/", "/rel"} )
           => /\ calls[c].pc = "done"
              /\ calls[c].result = Err("TooManyRedirects")
              /\ calls[c].issued = 32

C2_Witness ==
    \E c \in Calls :
        /\ calls[c].result = Err("TooManyRedirects")
        /\ calls[c].issued = 32

\* C3: a redirection response (3xx) without a Location header ends the call with
\* RequestFailure carrying that status, and no request follows it.
C3_RedirectWithoutLocation ==
    \A c \in Calls :
        ( /\ calls[c].resp # Nothing
          /\ Is3xx(calls[c].resp.status)
          /\ calls[c].resp.location = NoneVal )
        => /\ calls[c].pc = "done"
           /\ calls[c].result = RequestFailure(calls[c].resp.status)
           /\ calls[c].issued = calls[c].iter
           /\ calls[c].waits = calls[c].iter

C3_Witness ==
    \E c \in Calls :
        /\ calls[c].pc = "done"
        /\ calls[c].resp # Nothing
        /\ calls[c].resp.status = 399 /\ calls[c].resp.location = NoneVal
        /\ calls[c].result = RequestFailure(399)
        /\ calls[c].iter = 3

\* C4: a response that is not a redirection with a Location header ends the loop at
\* that hop: a 2xx status (with or without a Location header) is returned as success,
\* every other status fails with RequestFailure carrying the status, and no request
\* follows, however many redirects came before.
C4_TerminalResponse ==
    \A c \in Calls :
        ( /\ calls[c].resp # Nothing
          /\ ~(Is3xx(calls[c].resp.status) /\ calls[c].resp.location # NoneVal) )
        => /\ calls[c].pc \in {"done", "read"}
           /\ calls[c].issued = calls[c].iter
           /\ calls[c].waits = calls[c].iter
           /\ Is2xx(calls[c].resp.status) =>
                  IF calls[c].op = "send"
                  THEN calls[c].result = Ok(calls[c].resp.status)
                  ELSE \/ calls[c].pc = "read" /\ calls[c].result = Pending
                       \/ calls[c].pc = "done"
                          /\ calls[c].result = ReadBodyResult(client, calls[c].resp.body)
                       \/ calls[c].pc = "done" /\ calls[c].result = Err("Http")
           /\ ~Is2xx(calls[c].resp.status) =>
                  /\ calls[c].pc = "done"
                  /\ calls[c].result = RequestFailure(calls[c].resp.status)

C4_Witness ==
    \E c \in Calls :
        /\ calls[c].pc = "done"
        /\ calls[c].op = "send"
        /\ calls[c].iter = 5
        /\ calls[c].resp # Nothing
        /\ calls[c].resp.status = 299 /\ calls[c].resp.location = "http://b/"
        /\ calls[c].result = Ok(299)

\* C5: with http_only set, no request the backend executes for any call, on the first
\* hop or after a redirect, is addressed to a target whose scheme is https.
C5_HttpOnlyNeverHttps ==
    client.http_only =>
        \A c \in Calls :
            (calls[c].pc = "call" /\ BackendCarries(client, calls[c].req))
            => calls[c].req.uri.scheme # "https"

\* Location values that are no request-target text
InvalidLocations == {"http://a/x y", "http://a/é"}

\* C6: a call that ends on a redirection whose Location value is no valid
\* request-target text ends with the Url error.
C6_InvalidLocationIsUrlError ==
    \A c \in Calls :
        ( /\ calls[c].pc = "done"
          /\ calls[c].resp # Nothing
          /\ Is3xx(calls[c].resp.status)
          /\ calls[c].resp.location \in InvalidLocations )
        => calls[c].result = Err("Url")

\* C7: every request the backend carries is addressed to the host the client was
\* built for.
C7_SingleTarget ==
    \A c \in Calls :
        (calls[c].pc = "call" /\ BackendCarries(client, calls[c].req))
        => calls[c].req.uri.authority = ParseUri(client.target).authority

\* What the call in local state st can do next when it runs alone.
SoloSteps(cl, st) ==
    CASE st.pc \in {"idle", "done"} -> {Start(cl, "send", ConcBody)}
      [] st.pc = "ready" -> {[st EXCEPT !.pc = "call", !.issued = @ + 1], Finish(st, Err("Http"))}
      [] st.pc = "call" ->
            {Classify(cl, st, r) : r \in ConcResponses} \cup {Finish(st, Err("Http"))}
      [] OTHER -> {}

\* The cursor target a call on an http_only client for https://a/ has on its first
\* hop, and after the redirect it followed last.
ExpectedTarget(st) ==
    IF st.iter = 1 THEN "http://a/"
    ELSE IF st.resp = Nothing THEN NoneVal
    ELSE IF st.resp.location = "https://a/b" THEN "http://a/b"
    ELSE st.resp.location

\* C8: with two calls interleaved on duplicated handles, each step changes the state
\* of one call only, to a state that call could reach running alone from its own
\* state; the cursor of a running call is given by its own hop count and the last
\* response it received itself; and the client is never changed.
C8_CallLocalCursor ==
    /\ [](\A c \in Calls :
            calls[c].pc \in {"ready", "call"} =>
                /\ calls[c].target = ExpectedTarget(calls[c])
                /\ calls[c].iter = calls[c].answered + 1
                /\ calls[c].req.uri = ParseUri(calls[c].target))
    /\ [][ /\ client' = client
           /\ \A c \in Calls :
                 calls'[c] # calls[c] =>
                     /\ calls'[c] \in SoloSteps(client, calls[c])
                     /\ \A d \in Calls \ {c} : calls'[d] = calls[d] ]_vars

C8_Witness ==
    /\ calls[1].pc = "call" /\ calls[1].iter = 3 /\ calls[1].target = "http://a/b"
    /\ calls[2].pc = "ready" /\ calls[2].iter = 2 /\ calls[2].target = "http://b/"
    /\ client.target = "https://a/"

SevenKinds ==
    {"Url", "Http", "RequestFailure", "RequestTooLarge", "Malformed",
     "InvalidCertficateStore", "TooManyRedirects"}

\* C9: a call that has ended either succeeded or failed with one of the seven error
\* kinds; it ended in no other way.
C9_SevenKinds ==
    \A c \in Calls :
        calls[c].pc = "done" =>
            \/ calls[c].result.kind \in {"Ok", "OkBytes"}
            \/ calls[c].result.kind = "Err" /\ calls[c].result.err \in SevenKinds

HttpTargets ==
    {"http://a", "http://a:80", "http://a:9999", "http://a/p?q=1", "http://a/m#f", "HTTP://A/p"}
HttpsTargets == {"https://a", "https://a:9999"}
OtherSchemeTargets == {"ws://a:9933"}
NoHostTargets == {"mailto:x", "file:///x"}
UnparsableTargets == {"http://a:-43", "http://a:99999", "a/p", "http://", ""}

\* C10: new succeeds only for an http target with a host, or an https one in a build
\* with TLS support, and then produces the client; for another scheme, for https in
\* a build without TLS support, for a target without host and for a target that does
\* not parse it fails with the Url error and produces no client.
C10_Construction ==
    built # Nothing =>
        LET t == built.args.target
            f == built.features
            r == built.result
        IN  /\ r.ok => /\ t \in HttpTargets \/ (t \in HttpsTargets /\ "__tls" \in f)
                       /\ client = r.client
            /\ ( \/ t \in OtherSchemeTargets \cup NoHostTargets \cup UnparsableTargets
                 \/ t \in HttpsTargets /\ "__tls" \notin f )
               => /\ r = [ok |-> FALSE, err |-> "Url"]
                  /\ client = Nothing

C10_Witness ==
    /\ built # Nothing
    /\ built.args.target = "http://a:-43"
    /\ built.result = [ok |-> FALSE, err |-> "Url"]
    /\ client = Nothing


\* What the caller supplied at construction under a header name, NoneVal when nothing.
Supplied(key) == HeaderGet(built.args.headers, key)

\* C11 (as stated): every request attempt carries Content-Type and Accept with the
\* value application/json, whatever headers the caller supplied at construction.
C11_JsonHeadersAlways ==
    \A c \in Calls :
        calls[c].req # Nothing =>
            /\ HeaderGet(calls[c].req.headers, "content-type") = "application/json"
            /\ HeaderGet(calls[c].req.headers, "accept") = "application/json"

\* C11 (amended): every request attempt carries a Content-Type and an Accept header;
\* each has the value application/json unless the caller supplied a header of that
\* name at construction, and then it has the caller's value.
C11_JsonHeadersUnlessSupplied ==
    \A c \in Calls :
        calls[c].req # Nothing =>
            \A key \in {"content-type", "accept"} :
                HeaderGet(calls[c].req.headers, key) =
                    IF Supplied(key) = NoneVal THEN "application/json" ELSE Supplied(key)

C11_Witness ==
    \E c \in Calls :
        /\ calls[c].pc = "call" /\ calls[c].iter = 2
        /\ Supplied("content-type") = "text/plain"
        /\ HeaderGet(calls[c].req.headers, "content-type") = "text/plain"
        /\ HeaderGet(calls[c].req.headers, "accept") = "application/json"

\* C12: send_and_read_body returns bytes only when the send loop ended in a success
\* response and the whole body was read within max_response_size; a body over the
\* limit fails with RequestTooLarge and a malformed one with Malformed, and neither
\* returns bytes.
C12_ReadBody ==
    \A c \in Calls :
        (calls[c].op = "send_and_read_body" /\ calls[c].pc = "done") =>
            /\ calls[c].result.kind = "OkBytes" =>
                   /\ calls[c].resp # Nothing
                   /\ Is2xx(calls[c].resp.status)
                   /\ calls[c].resp.body.len <= client.max_response_size
                   /\ calls[c].resp.body.wellformed
                   /\ calls[c].result.len = calls[c].resp.body.len
            /\ ( /\ calls[c].resp # Nothing
                 /\ Is2xx(calls[c].resp.status)
                 /\ calls[c].result # Err("Http") ) =>
                   /\ calls[c].resp.body.len > client.max_response_size =>
                          calls[c].result = Err("RequestTooLarge")
                   /\ ( /\ calls[c].resp.body.len <= client.max_response_size
                        /\ ~calls[c].resp.body.wellformed ) =>
                          calls[c].result = Err("Malformed")

C12_Witness ==
    \E c \in Calls :
        /\ calls[c].op = "send_and_read_body" /\ calls[c].pc = "done"
        /\ calls[c].resp # Nothing
        /\ calls[c].resp.status = 200
        /\ calls[c].resp.body.len = client.max_response_size + 1
        /\ calls[c].result = Err("RequestTooLarge")
        /\ Len(calls[c].body) <= client.max_request_size

\* C13 (as stated): send is bounded by the same limits as send_and_read_body: it fails
\* whenever send_and_read_body, given the same request and the same responses, fails
\* on a size limit (the request over max_request_size, or the body of the final
\* response over max_response_size).
C13_SendSameLimits ==
    \A c \in Calls :
        (calls[c].op = "send" /\ calls[c].pc = "done") =>
            /\ TooLarge(client, calls[c].body) => calls[c].result = Err("RequestTooLarge")
            /\ ( /\ calls[c].resp # Nothing
                 /\ Is2xx(calls[c].resp.status)
                 /\ ReadBodyResult(client, calls[c].resp.body) = Err("RequestTooLarge") )
               => calls[c].result.kind = "Err"

\* C13 (amended): send is bounded by max_request_size exactly as send_and_read_body is
\* (a body over it fails with RequestTooLarge before any request); it does not read the
\* response body, so max_response_size does not bound it: a success response of any
\* body size is returned as success, and no body is ever returned.
C13_SendRequestLimitOnly ==
    \A c \in Calls :
        /\ (calls[c].pc = "done" /\ TooLarge(client, calls[c].body)) =>
               /\ calls[c].result = Err("RequestTooLarge")
               /\ calls[c].waits = 0
        /\ calls[c].op = "send" =>
               /\ calls[c].pc # "read"
               /\ calls[c].result.kind # "OkBytes"
               /\ ( /\ calls[c].pc = "done"
                    /\ calls[c].resp # Nothing
                    /\ Is2xx(calls[c].resp.status) )
                  => calls[c].result = Ok(calls[c].resp.status)

C13_Witness ==
    \E c \in Calls :
        /\ calls[c].op = "send" /\ calls[c].pc = "done"
        /\ calls[c].resp # Nothing
        /\ calls[c].resp.status = 200
        /\ calls[c].resp.body.len > client.max_response_size
        /\ calls[c].result = Ok(200)

\* A call that ended in success or in RequestFailure.
EndedOnResponse(st) ==
    \/ st.result.kind \in {"Ok", "OkBytes"}
    \/ st.result.kind = "Err" /\ st.result.err = "RequestFailure"

\* C14: the hops of a call are strictly sequential: attempt k+1 is issued only after
\* the response to attempt k was received and was a redirect with a Location header,
\* at most one request of the call is in flight, and a call that ends in success or in
\* RequestFailure after following k redirects has issued exactly k+1 attempts, k <= 31.
C14_SequentialHops ==
    \A c \in Calls :
        /\ calls[c].issued - calls[c].answered \in {0, 1}
        /\ calls[c].pc = "call" => calls[c].issued = calls[c].answered + 1
        /\ calls[c].pc \in {"ready", "read"} => calls[c].issued = calls[c].answered
        /\ (calls[c].pc \in {"ready", "call"} /\ calls[c].answered >= 1) =>
               /\ calls[c].resp # Nothing
               /\ Is3xx(calls[c].resp.status)
               /\ calls[c].resp.location # NoneVal
        /\ (calls[c].pc = "done" /\ EndedOnResponse(calls[c])) =>
               /\ calls[c].issued = calls[c].answered
               /\ calls[c].issued = calls[c].iter
               /\ calls[c].answered - 1 \in 0..31
               /\ ~(Is3xx(calls[c].resp.status) /\ calls[c].resp.location # NoneVal)

C14_Witness ==
    \E c \in Calls :
        /\ calls[c].pc = "done"
        /\ calls[c].result = RequestFailure(500)
        /\ calls[c].answered = 32 /\ calls[c].issued = 32

\* The calls whose request is being executed, and the calls the pipeline has signalled
\* readiness to for a request that is not answered yet.
InFlight == {c \in Calls : calls[c].pc = "call"}
Admitted == {c \in Calls : calls[c].issued = calls[c].waits /\ calls[c].issued > calls[c].answered}

\* C15: on every hop the request is executed only after the pipeline has signalled
\* readiness for that hop: no request is issued before the readiness wait of its hop
\* has completed, and across concurrent calls the requests in flight never exceed the
\* readiness signals the pipeline has given.
C15_ReadyBeforeCall ==
    /\ [](\A c \in Calls :
              /\ calls[c].issued <= calls[c].waits
              /\ calls[c].pc = "call" =>
                     /\ calls[c].issued = calls[c].waits
                     /\ calls[c].issued = calls[c].iter
                     /\ calls[c].req # Nothing)
    /\ [](InFlight \subseteq Admitted /\ Cardinality(InFlight) <= Cardinality(Admitted))
    /\ [][\A c \in Calls :
              calls'[c].issued > calls[c].issued =>
                  /\ calls[c].pc = "ready" /\ calls'[c].pc = "call"
                  /\ calls[c].waits = calls[c].issued + 1
                  /\ calls'[c].issued = calls[c].issued + 1
                  /\ calls'[c].req = calls[c].req]_vars

C15_Witness ==
    /\ InFlight = Calls
    /\ calls[1].issued = 3 /\ calls[1].waits = 3
    /\ calls[2].issued = 1 /\ calls[2].waits = 1

\* C16: a failure of the readiness wait or of the execute step, on any hop, ends the
\* call at once with the Http error: the failed step is not tried again and no later
\* attempt is made, also when earlier hops of the call were redirects.
C16_PipelineFailureEndsCall ==
    /\ [](\A c \in Calls :
              /\ (calls[c].pc = "done" /\ calls[c].waits = calls[c].issued + 1) =>
                     calls[c].result = Err("Http")
              /\ (calls[c].pc = "done" /\ calls[c].issued = calls[c].answered + 1) =>
                     calls[c].result = Err("Http")
              /\ calls[c].pc = "ready" =>
                     /\ calls[c].waits = calls[c].issued + 1
                     /\ calls[c].issued = calls[c].answered
              /\ calls[c].pc = "call" =>
                     /\ calls[c].waits = calls[c].issued
                     /\ calls[c].issued = calls[c].answered + 1)
    /\ [][\A c \in Calls :
              /\ (calls[c].pc = "ready" /\ calls'[c].pc \notin {"ready", "call", "dropped"}) =>
                     /\ calls'[c].pc = "done"
                     /\ calls'[c].result = Err("Http")
                     /\ calls'[c].waits = calls[c].waits
                     /\ calls'[c].issued = calls[c].issued
              /\ ( /\ calls[c].pc = "call" /\ calls'[c] # calls[c]
                   /\ calls'[c].answered = calls[c].answered
                   /\ calls'[c].pc # "dropped" ) =>
                     /\ calls'[c].pc = "done"
                     /\ calls'[c].result = Err("Http")
                     /\ calls'[c].waits = calls[c].waits
                     /\ calls'[c].issued = calls[c].issued]_vars

C16_Witness ==
    \E c \in Calls :
        /\ calls[c].pc = "done"
        /\ calls[c].result = Err("Http")
        /\ calls[c].answered = 2 /\ calls[c].issued = 3 /\ calls[c].waits = 3
        /\ calls[c].resp.status = 300

\* The canonical target as the first attempt addresses it.
FirstTarget(cl) ==
    IF cl.http_only /\ cl.target = "https://a/" THEN "http://a/" ELSE cl.target

\* C17: a send call leaves the client as it was: whatever the calls before it did
\* (followed redirects, failed, were dropped at a suspension point), the first attempt
\* of the next call is addressed to the canonical target (downgraded under http_only)
\* with the full budget of 32 attempts; a redirect is not remembered across calls.
C17_ClientUnchanged ==
    /\ [][client' = client]_vars
    /\ [](\A c \in Calls :
              (calls[c].pc \in {"ready", "call"} /\ calls[c].answered = 0) =>
                  /\ calls[c].iter = 1
                  /\ calls[c].target = FirstTarget(client)
                  /\ calls[c].req.uri = ParseUri(FirstTarget(client)))
    /\ [][\A c \in Calls :
              ( /\ calls[c].pc \in {"idle", "done", "dropped"}
                /\ calls'[c] # calls[c]
                /\ Len(calls'[c].body) <= client.max_request_size ) =>
                  /\ calls'[c].pc = "ready"
                  /\ calls'[c].target = FirstTarget(client)
                  /\ calls'[c].req.uri = ParseUri(FirstTarget(client))
                  /\ calls'[c].iter = 1 /\ calls'[c].waits = 1
                  /\ MaxRedirects - calls'[c].iter + 1 = 32
                  /\ calls'[c].issued = 0 /\ calls'[c].answered = 0
                  /\ calls'[c].resp = Nothing]_vars

\* a call started after the handle's previous call was dropped mid-way
C17_Witness ==
    \E c \in Calls :
        /\ calls[c].after_drop
        /\ client.http_only /\ client.target = "https://a/"
        /\ calls[c].pc = "call" /\ calls[c].iter = 1
        /\ calls[c].target = "http://a/"

\* C18: every attempt is a POST that carries the client's cached header set and a body
\* equal to the body the caller passed; method, headers and body are the same on every
\* hop of a call.
C18_SameRequestEveryHop ==
    /\ [](\A c \in Calls :
              calls[c].req # Nothing =>
                  /\ calls[c].req.method = "POST"
                  /\ calls[c].req.headers = client.headers
                  /\ calls[c].req.headers = CachedHeaders(built.args.headers)
                  /\ calls[c].req.body = calls[c].body
                  /\ calls[c].req.body = ConcBody)
    /\ [][\A c \in Calls :
              (calls[c].req # Nothing /\ calls'[c].req # Nothing) =>
                  /\ calls'[c].req.method = calls[c].req.method
                  /\ calls'[c].req.headers = calls[c].req.headers
                  /\ calls'[c].req.body = calls[c].req.body]_vars

C18_Witness ==
    \E c \in Calls :
        /\ calls[c].pc = "call" /\ calls[c].iter = 3
        /\ calls[c].resp.location = "http://b/"
        /\ calls[c].req.method = "POST"
        /\ HeaderGet(calls[c].req.headers, "x-api-key") = "k"
        /\ HeaderGet(calls[c].req.headers, "accept") = "text/html"
        /\ calls[c].req.body = ConcBody

\* C19: provided every readiness wait and every execute step eventually completes,
\* every call eventually terminates in the succeeded or in the failed state (a result
\* or one of the errors is returned), whatever the responses are, endless and cyclic
\* redirect chains included.
C19_CallTerminates ==
    \A c \in {1} :
        (calls[c].pc \in {"ready", "call", "read"})
            ~> (calls[c].pc = "done" /\ calls[c].result.kind \in {"Ok", "OkBytes", "Err"})

\* What does hold under the same premise: every call ends, by a return or by the panic.
CallEnds ==
    \A c \in {1} :
        (calls[c].pc \in {"ready", "call", "read"}) ~> (calls[c].pc = "done")


\* C20: after a redirect with a Location header the next attempt is addressed to the
\* Location value as it stands; the one change made to it is the https-to-http rewrite
\* under http_only. It is not resolved against the previous target, not normalized and
\* not checked for scheme or host.
C20_LocationVerbatim ==
    \A c \in Calls :
        (calls[c].pc \in {"ready", "call"} /\ calls[c].answered >= 1) =>
            LET loc == calls[c].resp.location
            IN  /\ calls[c].req.uri = ParseUri(calls[c].target)
                /\ ~client.http_only => calls[c].target = loc
                /\ (client.http_only /\ loc = "https://a/b") => calls[c].target = "http://a/b"
                /\ (client.http_only /\ loc = "HTTPS://a/c") =>
                       calls[c].target \in {"HTTPS://a/c", "http://a/c"}
                /\ loc \in {"http://b/", "/rel"} => calls[c].target = loc
                /\ loc = "/rel" =>
                       /\ calls[c].req.uri.scheme = NoneVal
                       /\ calls[c].req.uri.authority = NoneVal
                       /\ calls[c].req.uri.path_and_query = "/rel"
                /\ loc = "http://b/" => calls[c].req.uri.authority = "b"

C20_Witness ==
    \E c \in Calls :
        /\ calls[c].pc = "ready" /\ calls[c].iter = 3
        /\ calls[c].resp.location = "/rel"
        /\ calls[c].target = "/rel"
        /\ client.target = "https://a/"
====
